---- MODULE Spec2Model ----
(***************************************************************************)
(* Model of benchexec/tools/vampire.py: the tool-info module of Vampire.  *)
(*                                                                         *)
(* A Python str is a sequence of characters (one-character strings), so    *)
(* that startswith, split and slicing are computed character by character. *)
(* An optional value (None or a value) is a sequence of length 0 or 1.     *)
(* The command-line tokens of cmdline are only compared and concatenated   *)
(* and are TLA+ strings.                                                   *)
(***************************************************************************)
EXTENDS Integers, Sequences, FiniteSets, TLC

VARIABLES
    run,        \* the Run handed to the result methods: exit_code and output
    call,       \* the result method called last, with its identifier argument
    ret,        \* what that method returned
    options,    \* the option list object the caller hands to cmdline
    cmd_call,   \* the arguments of the last cmdline call (options as they were)
    cmd_ret,    \* what the last cmdline call returned, or None if it raised
    raised      \* whether the last cmdline call raised AssertionError

vars == <<run, call, ret, options, cmd_call, cmd_ret, raised>>
result_vars == <<run, call, ret>>
cmdline_vars == <<options, cmd_call, cmd_ret, raised>>

-----------------------------------------------------------------------------
(* Optional values *)

None == <<>>
Some(v) == <<v>>
IsNone(x) == x = <<>>
Get(x) == x[1]

-----------------------------------------------------------------------------
(* String literals of the source *)

\* "% SZS status" (line 172)
PREFIX_SZS_STATUS ==
    <<"%"," ","S","Z","S"," ","s","t","a","t","u","s">>

\* prefix = "% Termination reason: " (line 187)
prefix ==
    <<"%"," ","T","e","r","m","i","n","a","t","i","o","n"," ","r","e","a","s",
      "o","n",":"," ">>

\* "Parsing error" (lines 137, 138)
PARSING_ERROR ==
    <<"P","a","r","s","i","n","g"," ","e","r","r","o","r">>

\* "Timeout" (lines 133, 162)
STR_Timeout ==
    <<"T","i","m","e","o","u","t">>

\* "GaveUp" (line 162)
STR_GaveUp ==
    <<"G","a","v","e","U","p">>

\* "User" (line 162)
STR_User ==
    <<"U","s","e","r">>

\* "ContradictoryAxioms" (line 160)
STR_ContradictoryAxioms ==
    <<"C","o","n","t","r","a","d","i","c","t","o","r","y","A","x","i","o","m",
      "s">>

\* "Theorem" (line 160)
STR_Theorem ==
    <<"T","h","e","o","r","e","m">>

\* "Unsatisfiable" (line 160)
STR_Unsatisfiable ==
    <<"U","n","s","a","t","i","s","f","i","a","b","l","e">>

\* "CounterSatisfiable" (line 161)
STR_CounterSatisfiable ==
    <<"C","o","u","n","t","e","r","S","a","t","i","s","f","i","a","b","l","e">>

\* "Satisfiable" (line 161)
STR_Satisfiable ==
    <<"S","a","t","i","s","f","i","a","b","l","e">>

\* "Time limit" (line 142)
REASON_TIME_LIMIT ==
    <<"T","i","m","e"," ","l","i","m","i","t">>

\* "Refutation not found, incomplete strategy" (line 144)
REASON_INCOMPLETE_STRATEGY ==
    <<"R","e","f","u","t","a","t","i","o","n"," ","n","o","t"," ","f","o","u",
      "n","d",","," ","i","n","c","o","m","p","l","e","t","e"," ","s","t","r",
      "a","t","e","g","y">>

\* "Refutation not found, non-redundant clauses discarded" (line 146)
REASON_CLAUSES_DISCARDED ==
    <<"R","e","f","u","t","a","t","i","o","n"," ","n","o","t"," ","f","o","u",
      "n","d",","," ","n","o","n","-","r","e","d","u","n","d","a","n","t"," ",
      "c","l","a","u","s","e","s"," ","d","i","s","c","a","r","d","e","d">>

\* "--" (line 214)
PLACEHOLDER ==
    <<"-","-">>

\* Variant of SZS_UNSAT that lacks "ContradictoryAxioms" (C3 tells them apart)
SZS_UNSAT_short == <<STR_Theorem, STR_Unsatisfiable>>

\* SZS_UNSAT = ["ContradictoryAxioms", "Theorem", "Unsatisfiable"]
SZS_UNSAT == <<STR_ContradictoryAxioms, STR_Theorem, STR_Unsatisfiable>>

\* SZS_SAT = ["CounterSatisfiable", "Satisfiable"]
SZS_SAT == <<STR_CounterSatisfiable, STR_Satisfiable>>

\* SZS_FAIL = ["Timeout", "GaveUp", "User"]
SZS_FAIL == <<STR_Timeout, STR_GaveUp, STR_User>>

\* benchexec.result.RESULT_* as determine_result uses them, and its own strings
RESULT_TRUE_PROP == "true"
RESULT_FALSE_PROP == "false"
RESULT_UNKNOWN == "unknown"
RESULT_ERROR == "ERROR"
TIMEOUT == "TIMEOUT"
RESULT_PARSING_ERROR == "Parsing error"
RESULT_INCOMPLETE == "Incomplete"

-----------------------------------------------------------------------------
(* str and list primitives *)

\* x in xs, for a list xs
In(x, xs) == \E i \in 1..Len(xs) : xs[i] = x

\* s.startswith(p)
startswith(s, p) == Len(s) >= Len(p) /\ SubSeq(s, 1, Len(p)) = p

\* s[n:], for 0 <= n
slice_from(s, n) == SubSeq(s, n + 1, Len(s))

\* the characters str.split() separates words at
Whitespace == {" ", "\t"}

\* s.split(): the maximal runs of non-whitespace characters, in order.
\* i is the next character, word the run being read, words those read.
RECURSIVE split_from(_, _, _, _)
split_from(s, i, word, words) ==
    IF i > Len(s)
    THEN IF word = <<>> THEN words ELSE Append(words, word)
    ELSE IF s[i] \in Whitespace
         THEN split_from(s, i + 1, <<>>,
                         IF word = <<>> THEN words ELSE Append(words, word))
         ELSE split_from(s, i + 1, Append(word, s[i]), words)

split(s) == split_from(s, 1, <<>>, <<>>)

\* RunOutput.text: the lines joined by line breaks
RECURSIVE text(_)
text(output) ==
    IF output = <<>> THEN <<>>
    ELSE IF Len(output) = 1 THEN output[1]
    ELSE output[1] \o <<"\n">> \o text(Tail(output))

\* bool(exit_code): None is falsy, a ProcessExitCode is truthy when it holds
\* a signal or a non-zero value
Truthy(exit_code) ==
    /\ ~IsNone(exit_code)
    /\ \/ ~IsNone(Get(exit_code).signal) /\ Get(Get(exit_code).signal) # 0
       \/ ~IsNone(Get(exit_code).value) /\ Get(Get(exit_code).value) # 0

\* exit_code.value == n
ValueIs(exit_code, n) ==
    ~IsNone(Get(exit_code).value) /\ Get(Get(exit_code).value) = n

-----------------------------------------------------------------------------
(* get_szs_status, get_other_termination_reasons *)

\* The loop of get_szs_status from line i on, with the local `status`.
RECURSIVE szs_status_loop(_, _, _)
szs_status_loop(output, i, status) ==
    IF i > Len(output) THEN status
    ELSE IF startswith(output[i], PREFIX_SZS_STATUS)
         THEN IF IsNone(status)
              THEN LET words == split(output[i])
                   IN  szs_status_loop(output, i + 1,
                           IF Len(words) >= 4 THEN Some(words[4]) ELSE None)
              ELSE None
         ELSE szs_status_loop(output, i + 1, status)

get_szs_status(output) == szs_status_loop(output, 1, None)

\* The loop of get_other_termination_reasons from line i on.
RECURSIVE reasons_loop(_, _, _)
reasons_loop(output, i, reasons) ==
    IF i > Len(output) THEN reasons
    ELSE reasons_loop(output, i + 1,
             IF startswith(output[i], prefix)
             THEN Append(reasons, slice_from(output[i], Len(prefix)))
             ELSE reasons)

get_other_termination_reasons(output) == reasons_loop(output, 1, <<>>)

-----------------------------------------------------------------------------
(* determine_result *)

\* the branch `if run.exit_code.value == 1:`; None where it falls through
exit_code_1_result(output) ==
    LET reasons == get_other_termination_reasons(output)
    IN  IF reasons = <<REASON_TIME_LIMIT>> THEN Some(TIMEOUT)
        ELSE IF reasons = <<REASON_INCOMPLETE_STRATEGY>>
             THEN Some(RESULT_INCOMPLETE)
        ELSE IF reasons = <<REASON_CLAUSES_DISCARDED>>
             THEN Some(RESULT_INCOMPLETE)
        ELSE None

\* Variant of abnormal_result that looks for the parsing error before the
\* Timeout status (C2 tells them apart)
abnormal_result_parsing_first(r, status) ==
    IF ValueIs(r.exit_code, 4) /\ startswith(text(r.output), PARSING_ERROR)
    THEN RESULT_PARSING_ERROR
    ELSE IF status = Some(STR_Timeout) THEN TIMEOUT
    ELSE IF ValueIs(r.exit_code, 1)
            /\ ~IsNone(exit_code_1_result(r.output))
         THEN Get(exit_code_1_result(r.output))
    ELSE RESULT_ERROR

\* the branch `if run.exit_code:`
abnormal_result(r, status) ==
    IF status = Some(STR_Timeout) THEN TIMEOUT
    ELSE IF ValueIs(r.exit_code, 4)
            /\ startswith(text(r.output), PARSING_ERROR)
         THEN RESULT_PARSING_ERROR
    ELSE IF ValueIs(r.exit_code, 1)
            /\ ~IsNone(exit_code_1_result(r.output))
         THEN Get(exit_code_1_result(r.output))
    ELSE RESULT_ERROR

\* the branch `else:` (successfully finished)
normal_result(status) ==
    IF ~IsNone(status) /\ In(Get(status), SZS_UNSAT) THEN RESULT_TRUE_PROP
    ELSE IF ~IsNone(status) /\ In(Get(status), SZS_SAT) THEN RESULT_FALSE_PROP
    ELSE RESULT_UNKNOWN

determine_result(r) ==
    LET status == get_szs_status(r.output)
    IN  IF Truthy(r.exit_code)
        THEN abnormal_result(r, status)
        ELSE normal_result(status)

-----------------------------------------------------------------------------
(* get_value_from_output *)

\* x or y, for x a str or None: None and "" are falsy
Or(x, y) == IF IsNone(x) \/ Get(x) = <<>> THEN y ELSE x

\* Variant of get_value_from_output without `or "--"` (C10 tells them apart)
get_value_from_output_no_placeholder(output, identifier) ==
    IF identifier = "szs-status" THEN get_szs_status(output) ELSE None

get_value_from_output(output, identifier) ==
    IF identifier = "szs-status"
    THEN Or(get_szs_status(output), Some(PLACEHOLDER))
    ELSE None

-----------------------------------------------------------------------------
(* cmdline *)

Digit == <<"0", "1", "2", "3", "4", "5", "6", "7", "8", "9">>

\* f"{n}" for an int n >= 0: its decimal digits
RECURSIVE str(_)
str(n) == IF n < 10 THEN Digit[n + 1]
          ELSE str(n \div 10) \o Digit[(n % 10) + 1]

\* Variant of memory_mb in decimal megabytes (C7 tells them apart)
memory_mb_decimal(memory) == memory \div (1000 * 1000)

\* int(rlimits.memory / (1024 * 1024)): the quotient, truncated. The
\* division is exact in floating point for every byte count below 2^53.
memory_mb(memory) == memory \div (1024 * 1024)

\* Variant of time_limit_tokens that looks for -t alone, not --time_limit
\* (C4 tells them apart)
time_limit_tokens_short_only(opts, rlimits) ==
    IF ~In("-t", opts)
    THEN IF IsNone(rlimits.walltime)
         THEN <<"-t", "0">>
         ELSE <<"-t", str(Get(rlimits.walltime)) \o "s">>
    ELSE <<>>

\* Variant of time_limit_tokens with `if not rlimits.walltime`, which takes
\* a limit of 0 for no limit (C6 tells them apart)
time_limit_tokens_falsy(opts, rlimits) ==
    IF ~In("-t", opts) /\ ~In("--time_limit", opts)
    THEN IF IsNone(rlimits.walltime) \/ Get(rlimits.walltime) = 0
         THEN <<"-t", "0">>
         ELSE <<"-t", str(Get(rlimits.walltime)) \o "s">>
    ELSE <<>>

\* lines 90-96: the tokens the first `if` appends to options
time_limit_tokens(opts, rlimits) ==
    IF ~In("-t", opts) /\ ~In("--time_limit", opts)
    THEN IF IsNone(rlimits.walltime)
         THEN <<"-t", "0">>
         ELSE <<"-t", str(Get(rlimits.walltime)) \o "s">>
    ELSE <<>>

\* lines 98-106: the tokens the second `if` appends to options
memory_limit_tokens(opts, rlimits) ==
    IF ~In("-m", opts) /\ ~In("--memory_limit", opts)
    THEN IF IsNone(rlimits.memory)
         THEN <<>>
         ELSE <<"-m", str(memory_mb(Get(rlimits.memory)))>>
    ELSE <<>>

\* Variant of input_files_ok that admits two files (C8 tells them apart)
input_files_ok_two(input_files) == Len(input_files) <= 2

\* the assert of line 88
input_files_ok(input_files) == Len(input_files) <= 1

\* options after the two `options += [...]` statements
options_after(opts, rlimits) ==
    LET opts1 == opts \o time_limit_tokens(opts, rlimits)
    IN  opts1 \o memory_limit_tokens(opts1, rlimits)

\* the list `options` names when cmdline is left: `+=` on a list extends
\* the list object in place, and that object is the caller's
caller_options_after(opts, rlimits) == options_after(opts, rlimits)

\* Variant of command_line with the input files before the options (C9
\* tells them apart)
command_line_files_first(executable, opts, input_files) ==
    <<executable>> \o input_files \o opts

\* line 109: [executable, *options, *task.input_files]
command_line(executable, opts, input_files) ==
    <<executable>> \o opts \o input_files

-----------------------------------------------------------------------------
(* Inputs *)

\* the longest output, in lines
MaxLines == 2

\* the longest option list a caller passes
MaxOptions == 2

\* " for foo": the rest of a status line after the status word
FOR_FOO ==
    <<" ","f","o","r"," ","f","o","o">>

\* ": unexpected token": the rest of a parsing-error line
PARSE_DETAIL ==
    <<":"," ","u","n","e","x","p","e","c","t","e","d"," ","t","o","k","e","n">>

\* "Memory limit": a termination reason determine_result does not name
REASON_OTHER ==
    <<"M","e","m","o","r","y"," ","l","i","m","i","t">>

StatusLine(word) == PREFIX_SZS_STATUS \o <<" ">> \o word \o FOR_FOO

\* The lines an output is made of: a status line for each verdict the
\* tables name and for two they do not, one with a doubled blank, one with a
\* tab, one cut after the prefix, a parsing error, and termination reasons.
Lines ==
    { StatusLine(STR_Theorem),
      StatusLine(STR_Satisfiable),
      StatusLine(STR_Timeout),
      StatusLine(STR_GaveUp),
      StatusLine(STR_ContradictoryAxioms),
      PREFIX_SZS_STATUS \o <<" ", " ">> \o STR_Unsatisfiable,
      PREFIX_SZS_STATUS \o <<"\t">> \o STR_CounterSatisfiable \o FOR_FOO,
      PREFIX_SZS_STATUS,
      PARSING_ERROR \o PARSE_DETAIL,
      prefix \o REASON_TIME_LIMIT,
      prefix \o REASON_INCOMPLETE_STRATEGY,
      prefix \o REASON_CLAUSES_DISCARDED,
      prefix \o REASON_OTHER }

Outputs == UNION { [1..n -> Lines] : n \in 0..MaxLines }

ExitCode(value, signal) == Some([value |-> value, signal |-> signal])

\* no exit code, exit 0, exits 1, 2 and 4, and a kill by signal 9
ExitCodes ==
    { None,
      ExitCode(Some(0), None),
      ExitCode(Some(1), None),
      ExitCode(Some(2), None),
      ExitCode(Some(4), None),
      ExitCode(None, Some(9)) }

Identifiers == {"szs-status", "cpu-time"}

OptionTokens == {"-t", "--time_limit", "-m", "--memory_limit", "--mode", "casc"}

OptionLists == UNION { [1..n -> OptionTokens] : n \in 0..MaxOptions }

Walltimes == {None, Some(0), Some(30)}

\* no ceiling; 1 MiB less a byte, 1 MiB, 1.5 MiB, 2 GiB less a byte
Memories ==
    {None, Some(1048575), Some(1048576), Some(1572864), Some(2147483647)}

ResourceLimits == [walltime : Walltimes, memory : Memories]

InputFiles == {<<>>, <<"a.p">>, <<"a.p", "b.p">>}

executable == "bin/vampire"

-----------------------------------------------------------------------------
(* The result methods, called on one run in any order and any number of
   times *)

NoCall == [method |-> "none", identifier |-> ""]

Init ==
    /\ run \in [exit_code : ExitCodes, output : Outputs]
    /\ call = NoCall
    /\ ret = None
    /\ options = <<>>
    /\ cmd_call = None
    /\ cmd_ret = None
    /\ raised = FALSE

DetermineResult ==
    /\ call' = [method |-> "determine_result", identifier |-> ""]
    /\ ret' = determine_result(run)
    /\ UNCHANGED <<run, cmdline_vars>>

GetSzsStatus ==
    /\ call' = [method |-> "get_szs_status", identifier |-> ""]
    /\ ret' = get_szs_status(run.output)
    /\ UNCHANGED <<run, cmdline_vars>>

GetValueFromOutput(identifier) ==
    /\ call' = [method |-> "get_value_from_output", identifier |-> identifier]
    /\ ret' = get_value_from_output(run.output, identifier)
    /\ UNCHANGED <<run, cmdline_vars>>

Next ==
    \/ DetermineResult
    \/ GetSzsStatus
    \/ \E identifier \in Identifiers : GetValueFromOutput(identifier)

Spec == Init /\ [][Next]_vars

-----------------------------------------------------------------------------
(* cmdline, called any number of times on one option list object *)

NoRun == [exit_code |-> None, output |-> <<>>]

InitCmdline ==
    /\ options \in OptionLists
    /\ cmd_call = None
    /\ cmd_ret = None
    /\ raised = FALSE
    /\ run = NoRun
    /\ call = NoCall
    /\ ret = None

Cmdline(input_files, rlimits) ==
    /\ cmd_call' = Some([options |-> options, input_files |-> input_files,
                         rlimits |-> rlimits])
    /\ IF input_files_ok(input_files)
       THEN /\ options' = caller_options_after(options, rlimits)
            /\ cmd_ret' = Some(command_line(executable,
                                   options_after(options, rlimits),
                                   input_files))
            /\ raised' = FALSE
       ELSE /\ options' = options
            /\ cmd_ret' = None
            /\ raised' = TRUE
    /\ UNCHANGED result_vars

NextCmdline ==
    \E input_files \in InputFiles, rlimits \in ResourceLimits :
        Cmdline(input_files, rlimits)

SpecCmdline == InitCmdline /\ [][NextCmdline]_vars

-----------------------------------------------------------------------------
(* Vocabulary of the properties *)

\* the lines of an output that start with "% SZS status"
StatusLineIndexes(output) ==
    { i \in 1..Len(output) : startswith(output[i], PREFIX_SZS_STATUS) }

\* a line with fewer than 4 whitespace-delimited tokens
Malformed(line) == Len(split(line)) < 4

\* the termination reasons are exactly [reason]: one line starts with the
\* prefix, and it is the prefix followed by reason
ReasonsAreExactly(output, reason) ==
    LET lines == { i \in 1..Len(output) : startswith(output[i], prefix) }
    IN  /\ Cardinality(lines) = 1
        /\ \A i \in lines : output[i] = prefix \o reason

\* the output begins with "Parsing error"
BeginsWithParsingError(output) ==
    output # <<>> /\ startswith(output[1], PARSING_ERROR)

Called(method) == call.method = method

\* the last cmdline call returned a command line
Returned == ~IsNone(cmd_call) /\ ~raised

\* the options as the caller passed them to the last cmdline call
Before == Get(cmd_call).options

\* the tokens of the returned command line between the caller's options and
\* the input files
Appended ==
    SubSeq(Get(cmd_ret), Len(Before) + 2,
           Len(Get(cmd_ret)) - Len(Get(cmd_call).input_files))

HasTimeOption(opts) == In("-t", opts) \/ In("--time_limit", opts)
HasMemoryOption(opts) == In("-m", opts) \/ In("--memory_limit", opts)

\* the time-limit value the claim names for a wall-clock limit
TimeValue(walltime) ==
    CASE walltime = None -> "0"
      [] walltime = Some(0) -> "0s"
      [] walltime = Some(30) -> "30s"
      [] OTHER -> str(Get(walltime)) \o "s"

-----------------------------------------------------------------------------
(* C1: whenever two or more lines of the output start with "% SZS status",
   get_szs_status returns None, whatever those lines hold. *)
C1_SeveralStatusLinesGiveNone ==
    (Called("get_szs_status")
        /\ Cardinality(StatusLineIndexes(run.output)) >= 2)
    => ret = None

(* C2: for a run with a truthy exit code, determine_result gives, first
   match winning: TIMEOUT if the extracted status is "Timeout"; else
   "Parsing error" if the exit code is 4 and the output begins with
   "Parsing error"; else, for exit code 1, TIMEOUT if the reasons are exactly
   ["Time limit"] and "Incomplete" if they are exactly one of the two
   "Refutation not found" reasons; else ERROR. *)
C2_AbnormalExit ==
    (Called("determine_result") /\ Truthy(run.exit_code))
    => LET out == run.output
           code == Get(run.exit_code).value
       IN  IF get_szs_status(out) = Some(STR_Timeout)
           THEN ret = "TIMEOUT"
           ELSE IF code = Some(4) /\ BeginsWithParsingError(out)
           THEN ret = "Parsing error"
           ELSE IF code = Some(1) /\ ReasonsAreExactly(out, REASON_TIME_LIMIT)
           THEN ret = "TIMEOUT"
           ELSE IF code = Some(1)
                   /\ \/ ReasonsAreExactly(out, REASON_INCOMPLETE_STRATEGY)
                      \/ ReasonsAreExactly(out, REASON_CLAUSES_DISCARDED)
           THEN ret = "Incomplete"
           ELSE ret = RESULT_ERROR

\* exit code 4, a parsing error on the first line and a Timeout status:
\* the status wins
C2_Witness ==
    /\ Called("determine_result")
    /\ run.exit_code = ExitCode(Some(4), None)
    /\ BeginsWithParsingError(run.output)
    /\ get_szs_status(run.output) = Some(STR_Timeout)
    /\ ret = "TIMEOUT"

(* C3: for a run with no or a falsy exit code, determine_result gives
   TRUE_PROP exactly when the extracted status is ContradictoryAxioms,
   Theorem or Unsatisfiable, FALSE_PROP exactly when it is CounterSatisfiable
   or Satisfiable, and UNKNOWN otherwise: never another result. *)
C3_NormalExit ==
    (Called("determine_result") /\ ~Truthy(run.exit_code))
    => LET status == get_szs_status(run.output)
       IN  /\ ret = RESULT_TRUE_PROP
                <=> status \in { Some(STR_ContradictoryAxioms),
                                 Some(STR_Theorem), Some(STR_Unsatisfiable) }
           /\ ret = RESULT_FALSE_PROP
                <=> status \in { Some(STR_CounterSatisfiable),
                                 Some(STR_Satisfiable) }
           /\ ret \in {RESULT_TRUE_PROP, RESULT_FALSE_PROP, RESULT_UNKNOWN}
           /\ ret \notin {"TIMEOUT", RESULT_ERROR, "Parsing error",
                          "Incomplete"}

\* exit 0, status ContradictoryAxioms and a "Time limit" reason: TRUE_PROP
C3_Witness ==
    /\ Called("determine_result")
    /\ run.exit_code = ExitCode(Some(0), None)
    /\ get_szs_status(run.output) = Some(STR_ContradictoryAxioms)
    /\ ReasonsAreExactly(run.output, REASON_TIME_LIMIT)
    /\ ret = RESULT_TRUE_PROP

(* C4, as claimed: when the options hold -t or --time_limit, cmdline
   appends neither a -t nor a -m token. *)
C4_NoTimeNorMemoryTokenAppended ==
    (Returned /\ HasTimeOption(Before))
    => ~In("-t", Appended) /\ ~In("-m", Appended)

(* C4, amended: when the options hold -t or --time_limit, cmdline appends no
   -t token; it appends -m exactly when a memory ceiling was requested and
   the options hold neither -m nor --memory_limit; no option of the caller
   is appended again. *)
C4_NoTimeTokenAppended ==
    (Returned /\ HasTimeOption(Before))
    => /\ ~In("-t", Appended)
       /\ In("-m", Appended)
            <=> (~HasMemoryOption(Before)
                    /\ ~IsNone(Get(cmd_call).rlimits.memory))
       /\ \A option \in {"-t", "-m"} :
              In(option, Before) => ~In(option, Appended)

\* --time_limit given, no memory option, a ceiling of 1 MiB: -m 1 appended
C4_Witness ==
    /\ Returned
    /\ In("--time_limit", Before)
    /\ ~In("-t", Before)
    /\ Get(cmd_call).rlimits.walltime = Some(30)
    /\ Appended = <<"-m", "1">>

(* C5: after a cmdline call the option list object of the caller holds the
   tokens it held before the call. *)
C5_CallerOptionsUntouched ==
    ~IsNone(cmd_call) => options = Before

(* C6: when the options hold neither -t nor --time_limit, cmdline appends
   exactly -t 0 for no wall-clock limit and -t <walltime>s otherwise (-t 0s
   for a limit of 0); when they hold one of them, it appends no time-limit
   token. *)
C6_TimeLimitTokens ==
    Returned
    => LET walltime == Get(cmd_call).rlimits.walltime
           times == { i \in 1..Len(Appended) : Appended[i] = "-t" }
       IN  IF HasTimeOption(Before)
           THEN times = {}
           ELSE /\ times = {1}
                /\ Len(Appended) >= 2
                /\ Appended[2] = TimeValue(walltime)
                /\ Len(Appended) > 2 => Appended[3] = "-m"

\* no time option and a wall-clock limit of 0: -t 0s
C6_Witness ==
    /\ Returned
    /\ ~HasTimeOption(Before)
    /\ Get(cmd_call).rlimits.walltime = Some(0)
    /\ SubSeq(Appended, 1, 2) = <<"-t", "0s">>

(* C7: when the options hold neither -m nor --memory_limit, cmdline appends
   nothing for memory if no ceiling was requested and otherwise exactly
   -m <n>, n the ceiling floor-divided by 1,048,576; when they hold one of
   them, it appends no memory token. *)
C7_MemoryLimitTokens ==
    Returned
    => LET memory == Get(cmd_call).rlimits.memory
           mems == { i \in 1..Len(Appended) : Appended[i] = "-m" }
           last == Len(Appended)
       IN  IF HasMemoryOption(Before) \/ IsNone(memory)
           THEN mems = {}
           ELSE /\ mems = {last - 1}
                /\ \E n \in 0..2047 :
                      /\ Get(memory) - n * 1048576 \in 0..1048575
                      /\ Appended[last] = str(n)
                /\ memory = Some(1048575) => Appended[last] = "0"
                /\ memory = Some(1048576) => Appended[last] = "1"
                /\ memory = Some(1572864) => Appended[last] = "1"
                /\ memory = Some(2147483647) => Appended[last] = "2047"

\* no memory option and a ceiling one byte below 1 MiB: -m 0
C7_Witness ==
    /\ Returned
    /\ ~HasMemoryOption(Before)
    /\ Get(cmd_call).rlimits.memory = Some(1048575)
    /\ SubSeq(Appended, Len(Appended) - 1, Len(Appended)) = <<"-m", "0">>

(* C8: cmdline raises the assertion failure exactly when the task has more
   than one input file, and then returns nothing and leaves the option list
   as it was. *)
C8_TooManyInputFiles ==
    ~IsNone(cmd_call)
    => /\ raised <=> Len(Get(cmd_call).input_files) > 1
       /\ raised => cmd_ret = None /\ options = Before

\* two input files, limits that would be appended: raised, nothing appended
C8_Witness ==
    /\ ~IsNone(cmd_call)
    /\ raised
    /\ Len(Get(cmd_call).input_files) = 2
    /\ ~HasTimeOption(Before)
    /\ ~HasMemoryOption(Before)
    /\ ~IsNone(Get(cmd_call).rlimits.memory)
    /\ options = Before

(* C9: a returned command line is the executable, then the caller's options
   in their order from position 2 on, then the appended limit tokens (time
   before memory), then the 0 or 1 input files. *)
C9_CommandLineOrder ==
    Returned
    => LET r == Get(cmd_ret)
           files == Get(cmd_call).input_files
       IN  /\ r[1] = executable
           /\ SubSeq(r, 2, Len(Before) + 1) = Before
           /\ SubSeq(r, Len(r) - Len(files) + 1, Len(r)) = files
           /\ Len(r) = 1 + Len(Before) + Len(Appended) + Len(files)
           /\ Len(Appended) \in {0, 2, 4}
           /\ Len(Appended) = 2 => Appended[1] \in {"-t", "-m"}
           /\ Len(Appended) = 4 => Appended[1] = "-t" /\ Appended[3] = "-m"

\* caller options, both limits appended and one input file
C9_Witness ==
    /\ Returned
    /\ Before = <<"--mode", "casc">>
    /\ Get(cmd_call).input_files = <<"a.p">>
    /\ Get(cmd_ret) = <<executable, "--mode", "casc", "-t", "30s",
                        "-m", "2047", "a.p">>

(* C10: get_value_from_output(output, "szs-status") returns the token
   get_szs_status returns when there is one and "--" when there is none (no
   status line, a single malformed one, or several that leave no status);
   never None nor "". *)
C10_StatusOrPlaceholder ==
    (Called("get_value_from_output") /\ call.identifier = "szs-status")
    => LET status == get_szs_status(run.output)
           lines == StatusLineIndexes(run.output)
       IN  /\ ~IsNone(status) => ret = status
           /\ IsNone(status) => ret = Some(PLACEHOLDER)
           /\ ret # None /\ ret # Some(<<>>)
           /\ lines = {} => ret = Some(PLACEHOLDER)
           /\ (Cardinality(lines) = 1
                 /\ \A i \in lines : Malformed(run.output[i]))
              => ret = Some(PLACEHOLDER)

\* two status lines that leave no status: "--"
C10_Witness ==
    /\ Called("get_value_from_output")
    /\ call.identifier = "szs-status"
    /\ Cardinality(StatusLineIndexes(run.output)) = 2
    /\ ret = Some(PLACEHOLDER)

====
